---- MODULE Spec2Model ----
(***************************************************************************)
(* Model of klippy/kinematics/polarxz.py: the boundary state of the polar  *)
(* XZ kinematics (limit_xy2, limit_z), check_move, segment_move, the two   *)
(* homing entry points home and home2, and get_status.                     *)
(*                                                                         *)
(* Numbers.  Python floats are modelled by exact integers.                 *)
(*  - The limits, the rail ranges and the moves given to check_move count  *)
(*    whole length units.                                                  *)
(*  - The points given to segment_move count units of 0.005, the literal   *)
(*    clearance of its detour points, so 0.005 is 1 and the literal 100000 *)
(*    of its search loop is 20000000.                                      *)
(*  - Squared distances are kept exactly, as two limbs <<hi, lo>> of 30    *)
(*    bits, because they exceed the 32 bit integers of the model checker.  *)
(*  - math.sqrt is a fixed point square root with Centi steps per unit.    *)
(***************************************************************************)
EXTENDS Integers, Sequences, FiniteSets, TLC

VARIABLES
    rails,       \* self.rails: <<rail_x, rail_z>>, the configuration of the two rails
    limit_xy2,   \* self.limit_xy2
    limit_z,     \* self.limit_z
    last_xy,     \* history: the most recent event that decides limit_xy2
    last_z,      \* history: the most recent event that decides limit_z
    hs_axes,     \* homing_state: the axes get_axes() returns
    hs_calls,    \* homing_state: the calls received, in order
    op           \* the most recent call on the kinematics and its outcome

vars == <<rails, limit_xy2, limit_z, last_xy, last_z, hs_axes, hs_calls, op>>

----------------------------------------------------------------------------
(* Bounds of the model *)

\* check_move: the XY coordinates of a move lie in 0 .. MaxXY
MaxXY == 2
\* check_move: the Z coordinates of a move lie in -1 .. MaxZ
MaxZ == 2
\* segment_move: the near coordinates lie in -Near .. Near (units of 0.005)
Near == 2
\* steps per length unit of the fixed point square root
Centi == 100

----------------------------------------------------------------------------
(* Exact arithmetic on two limbs of 30 bits *)

Abs(x) == IF x < 0 THEN -x ELSE x

Min(a, b) == IF a <= b THEN a ELSE b

\* a * b for 0 <= a, b < 2^30, as <<hi, lo>> with value hi * 2^30 + lo
WMul(a, b) ==
    LET B   == 32768
        W   == B * B
        a1  == a \div B
        a0  == a % B
        b1  == b \div B
        b0  == b % B
        mid == a1 * b0 + a0 * b1
        low == (mid % B) * B + a0 * b0
    IN  << a1 * b1 + (mid \div B) + (low \div W), low % W >>

WAdd(p, q) ==
    LET W == 32768 * 32768
    IN  << p[1] + q[1] + ((p[2] + q[2]) \div W), (p[2] + q[2]) % W >>

WLt(p, q) == p[1] < q[1] \/ (p[1] = q[1] /\ p[2] < q[2])

WLe(p, q) == p[1] < q[1] \/ (p[1] = q[1] /\ p[2] <= q[2])

RECURSIVE SqrtIter(_, _, _)
SqrtIter(n, lo, hi) ==
    IF lo >= hi THEN lo
    ELSE LET mid == (lo + hi + 1) \div 2
         IN  IF mid * mid <= n THEN SqrtIter(n, mid, hi)
             ELSE SqrtIter(n, lo, mid - 1)

\* math.sqrt on integers: the largest r with r * r <= n
ISqrt(n) == SqrtIter(n, 0, Min(n, 46340))

----------------------------------------------------------------------------
(* Geometry helpers *)

\* sqrdistance(p1, p2), exact, on two limbs
sqrdistance(p1, p2) ==
    WAdd(WMul(Abs(p2[1] - p1[1]), Abs(p2[1] - p1[1])),
         WMul(Abs(p2[2] - p1[2]), Abs(p2[2] - p1[2])))

\* distance(p1, p2) in steps of 1/Centi, for the short distances of check_move
distance(p1, p2) == ISqrt(sqrdistance(p1, p2)[2] * Centi * Centi)

crosses_point_mutant(checkpoint, p1, p2) ==
    /\ WLt(sqrdistance(checkpoint, p1), sqrdistance(p1, p2))
    /\ WLt(sqrdistance(checkpoint, p2), sqrdistance(p1, p2))

crosses_point(checkpoint, p1, p2) ==
    /\ WLe(sqrdistance(checkpoint, p1), sqrdistance(p1, p2))
    /\ WLe(sqrdistance(checkpoint, p2), sqrdistance(p1, p2))

----------------------------------------------------------------------------
(* segment_move *)

\* the Python value None
None == << >>

\* the literal 0.005 of the detour points, in units of 0.005
Clearance == 1

\* the literal 100000 that starts closest_to_start and closest_to_end,
\* in units of 0.005
ClosestInit == 20000000

\* the tuple move_options chosen by the if / elif / else
move_options_of(move) ==
    IF move.start_pos[1] = 0 /\ move.end_pos[1] = 0
    THEN << <<0, Clearance>>, <<0, -Clearance>> >>
    ELSE IF move.start_pos[2] = 0 /\ move.end_pos[2] = 0
    THEN << <<Clearance, 0>>, <<-Clearance, 0>> >>
    ELSE << <<0, Clearance>>, <<Clearance, 0>>,
            <<0, -Clearance>>, <<-Clearance, 0>> >>

\* one pass of the loop body over move_option.  The distances are compared
\* on their squares: closest_to_end and closest_to_start hold the square
\* of the Python values, and sqrt is strictly increasing.
closest_step(acc, move_option, move) ==
    LET dist_to_end   == sqrdistance(move_option, move.end_pos)
        dist_to_start == sqrdistance(move_option, move.start_pos)
        hit_end       == WLt(dist_to_end, acc.closest_to_end)
        hit_start     == WLt(dist_to_start, acc.closest_to_start)
    IN  [closest_to_end    |-> IF hit_end THEN dist_to_end
                               ELSE acc.closest_to_end,
         closest_end_pos   |-> IF hit_end THEN move_option
                               ELSE acc.closest_end_pos,
         closest_to_start  |-> IF hit_start THEN dist_to_start
                               ELSE acc.closest_to_start,
         closest_start_pos |-> IF hit_start THEN move_option
                               ELSE acc.closest_start_pos]

RECURSIVE closest_loop(_, _, _, _)
closest_loop(acc, move_options, i, move) ==
    IF i > Len(move_options) THEN acc
    ELSE closest_loop(closest_step(acc, move_options[i], move),
                      move_options, i + 1, move)

\* segment_move(move): None, or the list [move1, move2, move3]
segment_move(move) ==
    IF crosses_point(<<0, 0>>, move.start_pos, move.end_pos)
    THEN LET init == [closest_to_start  |-> WMul(ClosestInit, ClosestInit),
                      closest_to_end    |-> WMul(ClosestInit, ClosestInit),
                      closest_end_pos   |-> None,
                      closest_start_pos |-> None]
             fin  == closest_loop(init, move_options_of(move), 1, move)
         IN  << <<move.start_pos, fin.closest_start_pos>>,
                <<fin.closest_start_pos, fin.closest_end_pos>>,
                <<fin.closest_end_pos, move.end_pos>> >>
    ELSE None

\* the call segment_move(move) on the kinematics object
segment_move_call(move) ==
    /\ op' = [name |-> "segment_move", move |-> move,
              result |-> segment_move(move)]
    /\ UNCHANGED <<rails, limit_xy2, limit_z, last_xy, last_z,
                   hs_axes, hs_calls>>

----------------------------------------------------------------------------
(* Configurations of the two rails.  A rail has position_min <            *)
(* position_max and its endstop inside the range.                        *)

Rail(lo, hi, es, pd) ==
    [position_min |-> lo, position_max |-> hi,
     position_endstop |-> es, positive_dir |-> pd]

RailConfigs ==
    { << Rail(0, 2, 0, FALSE), Rail(0, 1, 0, FALSE) >>,
      << Rail(-1, 2, 2, TRUE), Rail(-1, 1, 1, TRUE) >> }

\* rail.get_range()
get_range(rail) == <<rail.position_min, rail.position_max>>

----------------------------------------------------------------------------
(* Boundary state: __init__, set_position, note_z_not_homed, _motor_off *)

\* max_xy = self.rails[0].get_range()[1]; self.axes_min = Coord(-max_xy,
\* -max_xy, min_z, 0.)
axes_min == << -get_range(rails[1])[2], -get_range(rails[1])[2],
               get_range(rails[2])[1], 0 >>

\* self.axes_max = Coord(max_xy, max_xy, max_z, 0.)
axes_max == << get_range(rails[1])[2], get_range(rails[1])[2],
               get_range(rails[2])[2], 0 >>

\* the limits before a call, kept with the call in op
Limits == <<limit_xy2, limit_z>>

\* the state PolarXZKinematics.__init__ leaves
Init ==
    /\ rails \in RailConfigs
    /\ limit_z = <<1, -1>>
    /\ limit_xy2 = -1
    /\ last_xy = "construction"
    /\ last_z = "construction"
    /\ hs_axes = << >>
    /\ hs_calls = << >>
    /\ op = [name |-> "construction"]

\* set_position(newpos, homing_axes).  The positions written to the
\* steppers are not part of the state of this module.
set_position_mutant(homing_axes) ==
    /\ limit_z' = IF 2 \in homing_axes THEN get_range(rails[2]) ELSE limit_z
    /\ limit_xy2' = IF 0 \in homing_axes \/ 1 \in homing_axes
                    THEN get_range(rails[1])[2] * get_range(rails[1])[2]
                    ELSE limit_xy2
    /\ last_xy' = IF 0 \in homing_axes /\ 1 \in homing_axes
                  THEN "set_position" ELSE last_xy
    /\ last_z' = IF 2 \in homing_axes THEN "set_position" ELSE last_z
    /\ op' = [name |-> "set_position", homing_axes |-> homing_axes,
              before |-> Limits]
    /\ UNCHANGED <<rails, hs_axes, hs_calls>>

set_position(homing_axes) ==
    /\ limit_z' = IF 2 \in homing_axes THEN get_range(rails[2]) ELSE limit_z
    /\ limit_xy2' = IF 0 \in homing_axes /\ 1 \in homing_axes
                    THEN get_range(rails[1])[2] * get_range(rails[1])[2]
                    ELSE limit_xy2
    /\ last_xy' = IF 0 \in homing_axes /\ 1 \in homing_axes
                  THEN "set_position" ELSE last_xy
    /\ last_z' = IF 2 \in homing_axes THEN "set_position" ELSE last_z
    /\ op' = [name |-> "set_position", homing_axes |-> homing_axes,
              before |-> Limits]
    /\ UNCHANGED <<rails, hs_axes, hs_calls>>

note_z_not_homed ==
    /\ limit_z' = <<1, -1>>
    /\ last_z' = "note_z_not_homed"
    /\ op' = [name |-> "note_z_not_homed", before |-> Limits]
    /\ UNCHANGED <<rails, limit_xy2, last_xy, hs_axes, hs_calls>>

\* the handler of the event stepper_enable:motor_off
motor_off_mutant ==
    /\ limit_z' = <<1, -1>>
    /\ last_xy' = "motor_off"
    /\ last_z' = "motor_off"
    /\ op' = [name |-> "motor_off", before |-> Limits]
    /\ UNCHANGED <<rails, limit_xy2, hs_axes, hs_calls>>

motor_off ==
    /\ limit_z' = <<1, -1>>
    /\ limit_xy2' = -1
    /\ last_xy' = "motor_off"
    /\ last_z' = "motor_off"
    /\ op' = [name |-> "motor_off", before |-> Limits]
    /\ UNCHANGED <<rails, hs_axes, hs_calls>>

----------------------------------------------------------------------------
(* get_status *)

get_status ==
    LET xy_home == IF limit_xy2 >= 0 THEN "xy" ELSE ""
        z_home  == IF limit_z[1] <= limit_z[2] THEN "z" ELSE ""
    IN  [homed_axes   |-> xy_home \o z_home,
         axis_minimum |-> axes_min,
         axis_maximum |-> axes_max]

get_status_call ==
    /\ op' = [name |-> "get_status", result |-> get_status]
    /\ UNCHANGED <<rails, limit_xy2, limit_z, last_xy, last_z,
                   hs_axes, hs_calls>>

----------------------------------------------------------------------------
(* check_move *)

\* config.getfloat('max_rotational_velocity', ...) and the three like it
max_rotational_velocity == 3
max_rotational_accel == 7
max_z_velocity == 2
max_z_accel == 5

\* math.pi and the unused local pi = 3.1415, in steps of 0.00001
MathPi == 314159
LocalPi == 314150

\* the Move the planner builds from a start and an end position:
\* axes_d is the per axis delta, move_d the Euclidean length (1/Centi)
Move(start_pos, end_pos) ==
    LET d == [i \in 1 .. 3 |-> end_pos[i] - start_pos[i]]
    IN  [start_pos |-> start_pos,
         end_pos   |-> end_pos,
         axes_d    |-> d,
         move_d    |-> ISqrt((d[1] * d[1] + d[2] * d[2] + d[3] * d[3])
                             * Centi * Centi)]

\* xy2 > self.limit_xy2
xy_out_of_range(move) ==
    move.end_pos[1] * move.end_pos[1] + move.end_pos[2] * move.end_pos[2]
        > limit_xy2

\* end_pos[2] < self.limit_z[0] or end_pos[2] > self.limit_z[1]
z_out_of_range_mutant(move) == move.end_pos[3] > limit_z[2]

z_out_of_range(move) ==
    move.end_pos[3] < limit_z[1] \/ move.end_pos[3] > limit_z[2]

\* the limit_speed calls of the rotational block, as a sequence of
\* argument pairs; the second argument counts steps of 0.00001
rotational_limit_mutant(move) ==
    LET bed_center   == <<0, 0>>
        bed_radius   == distance(bed_center, <<bed_center[1], axes_min[1]>>)
        start_radius == distance(bed_center, move.start_pos)
        end_radius   == distance(bed_center, move.end_pos)
        scale        == (2 * MathPi * Min(start_radius, end_radius))
                            \div bed_radius
    IN  << <<max_rotational_accel, max_rotational_velocity * scale>> >>

rotational_limit(move) ==
    IF move.axes_d[1] # 0 \/ move.axes_d[2] # 0
    THEN LET bed_center   == <<0, 0>>
             bed_radius   == distance(bed_center,
                                      <<bed_center[1], axes_min[1]>>)
             start_radius == distance(bed_center, move.start_pos)
             end_radius   == distance(bed_center, move.end_pos)
             scale        == (2 * MathPi * Min(start_radius, end_radius))
                                 \div bed_radius
         IN  << <<max_rotational_accel, max_rotational_velocity * scale>> >>
    ELSE << >>

\* the limit_speed call of the Z block; z_ratio counts steps of 1/Centi
z_limit(move) ==
    LET z_ratio == move.move_d \div Abs(move.axes_d[3])
    IN  << <<max_z_velocity * z_ratio, max_z_accel * z_ratio>> >>

\* check_move(move): what it raises (error is "" when it returns, args are
\* the arguments given to move.move_error, by is the block that raised)
\* and the limit_speed calls it made on the move, in order
check_move(move) ==
    IF xy_out_of_range(move)
    THEN [error |-> "move_error", by |-> "xy",
          args |-> IF limit_xy2 < 0 THEN <<"Must home axis first">>
                   ELSE << >>,
          limit_speed |-> << >>]
    ELSE IF move.axes_d[3] # 0
    THEN IF z_out_of_range(move)
         THEN [error |-> "move_error", by |-> "z",
               args |-> IF limit_z[1] > limit_z[2]
                        THEN <<"Must home axis first">> ELSE << >>,
               limit_speed |-> rotational_limit(move)]
         ELSE [error |-> "", by |-> "", args |-> << >>,
               limit_speed |-> rotational_limit(move) \o z_limit(move)]
    ELSE [error |-> "", by |-> "", args |-> << >>,
          limit_speed |-> rotational_limit(move)]

check_move_call(move) ==
    /\ op' = [name |-> "check_move", move |-> move,
              result |-> check_move(move)]
    /\ UNCHANGED <<rails, limit_xy2, limit_z, last_xy, last_z,
                   hs_axes, hs_calls>>

----------------------------------------------------------------------------
(* The kinematics object under any sequence of calls *)

\* the moves given to check_move
CheckPoints == (0 .. MaxXY) \X (0 .. MaxXY) \X (-1 .. MaxZ)

CheckStarts == {<<0, 0>>, <<1, 0>>, <<1, 1>>} \X {0, MaxZ}

CheckMoves ==
    { Move(<<s[1][1], s[1][2], s[2]>>, e) : s \in CheckStarts,
                                            e \in CheckPoints }

\* the moves given to segment_move (units of 0.005)
NearPoints == {<<0, 0>>, <<1, 0>>, <<-1, 0>>, <<0, 1>>, <<-1, -1>>}

NearMoves == [start_pos : NearPoints, end_pos : NearPoints]

SetPosition == \E homing_axes \in SUBSET {0, 1, 2} : set_position(homing_axes)

CheckMove == \E move \in CheckMoves : check_move_call(move)

SegmentMove == \E move \in NearMoves : segment_move_call(move)

Next ==
    \/ SetPosition
    \/ note_z_not_homed
    \/ motor_off
    \/ CheckMove
    \/ SegmentMove
    \/ get_status_call

Spec == Init /\ [][Next]_vars

----------------------------------------------------------------------------
(* Homing: _home_axis, home, home2.  The positions handed to home_rails   *)
(* count halves of a length unit, so that 1.5 times a distance is exact;  *)
(* a position is <<p>> and the Python value None is << >>.                *)

Some(halves) == <<halves>>

\* the name of self.rails[i - 1]
RailName(i) == IF i = 1 THEN "stepper_x" ELSE "stepper_z"

\* the length of self.rails
NumRails == 2

\* lst[i] = v on a Python list held as a tuple (i counts from 0)
SetItem(lst, i, v) == [lst EXCEPT ![i + 1] = v]

\* _home_axis(homing_state, axis, self.rails[r - 1]): its home_rails call
home_axis(axis, r) ==
    LET rail         == rails[r]
        position_min == get_range(rail)[1]
        position_max == get_range(rail)[2]
        hi           == rail
        homepos0     == SetItem(<<None, None, None, None>>, axis,
                                Some(2 * hi.position_endstop))
        homepos      == IF axis = 0 THEN SetItem(homepos0, 1, Some(0))
                        ELSE homepos0
        forcepos     ==
            IF hi.positive_dir
            THEN SetItem(homepos, axis,
                    Some(homepos[axis + 1][1]
                         - 2 * (hi.position_endstop - position_min)))
            ELSE SetItem(homepos, axis,
                    Some(homepos[axis + 1][1]
                         + 2 * (position_max - hi.position_endstop)))
    IN  [fn |-> "home_rails", rails |-> <<RailName(r)>>,
         forcepos |-> forcepos, homepos |-> homepos]

\* x in lst, on a Python list held as a tuple
In(x, lst) == \E i \in 1 .. Len(lst) : lst[i] = x

\* home(homing_state)
home ==
    LET homing_axes   == hs_axes
        home_xy       == In(0, homing_axes) \/ In(1, homing_axes)
        home_z        == In(2, homing_axes)
        updated_axes  == (IF home_xy THEN <<0, 1>> ELSE << >>)
                         \o (IF home_z THEN <<2>> ELSE << >>)
    IN  /\ op.name = "homing_requested"
        /\ hs_axes' = updated_axes
        /\ hs_calls' = hs_calls
              \o << [fn |-> "set_axes", axes |-> updated_axes] >>
              \o (IF home_xy THEN <<home_axis(0, 1), home_axis(1, 1)>>
                  ELSE << >>)
              \o (IF home_z THEN <<home_axis(2, 2)>> ELSE << >>)
        /\ op' = [name |-> "home", requested |-> hs_axes, error |-> ""]
        /\ UNCHANGED <<rails, limit_xy2, limit_z, last_xy, last_z>>

\* the body of the loop of home2 for one axis, once rail is bound
home2_axis(axis, r) ==
    LET rail         == rails[r]
        position_min == get_range(rail)[1]
        position_max == get_range(rail)[2]
        hi           == rail
        homepos      == SetItem(<<None, None, None, None>>, axis,
                                Some(2 * hi.position_endstop))
        forcepos     ==
            IF hi.positive_dir
            THEN SetItem(homepos, axis,
                    Some(homepos[axis + 1][1]
                         - 3 * (hi.position_endstop - position_min)))
            ELSE SetItem(homepos, axis,
                    Some(homepos[axis + 1][1]
                         + 3 * (position_max - hi.position_endstop)))
    IN  [fn |-> "home_rails", rails |-> <<RailName(r)>>,
         forcepos |-> forcepos, homepos |-> homepos]

\* the loop of home2 from the i-th axis on: the calls made and the
\* exception that ended it.  "if axis == 1: next" evaluates the builtin
\* next and goes on; self.rails[axis] raises IndexError past the list.
RECURSIVE home2_loop(_, _, _)
home2_loop(axes, i, calls) ==
    IF i > Len(axes) THEN [calls |-> calls, error |-> ""]
    ELSE IF axes[i] >= NumRails
    THEN [calls |-> calls, error |-> "IndexError"]
    ELSE home2_loop(axes, i + 1,
                    Append(calls, home2_axis(axes[i], axes[i] + 1)))

\* home2(homing_state)
home2 ==
    LET done == home2_loop(hs_axes, 1, << >>)
    IN  /\ op.name = "homing_requested"
        /\ hs_calls' = hs_calls \o done.calls
        /\ op' = [name |-> "home2", requested |-> hs_axes,
                  error |-> done.error]
        /\ UNCHANGED <<rails, limit_xy2, limit_z, last_xy, last_z, hs_axes>>

\* the lists of axes a homing request may name
MaxAxes == 3

AxesLists == UNION { [1 .. n -> {0, 1, 2}] : n \in 0 .. MaxAxes }

\* a new homing request: the coordinator holds the requested axes and has
\* received no call
InitHome ==
    /\ rails \in RailConfigs
    /\ limit_z = <<1, -1>>
    /\ limit_xy2 = -1
    /\ last_xy = "construction"
    /\ last_z = "construction"
    /\ hs_axes \in AxesLists
    /\ hs_calls = << >>
    /\ op = [name |-> "homing_requested"]

NextHome == home \/ home2

SpecHome == InitHome /\ [][NextHome]_vars

----------------------------------------------------------------------------
(* Claims about the boundary state and check_move, checked under Spec *)

Checked == op.name = "check_move"

Accepted == Checked /\ op.result.error = ""

Rejected == Checked /\ op.result.error = "move_error"

XYHomed == limit_xy2 >= 0

ZHomed == limit_z[1] <= limit_z[2]

\* the XY bound of the checked move is violated
XYViolated ==
    op.move.end_pos[1] * op.move.end_pos[1]
        + op.move.end_pos[2] * op.move.end_pos[2] > limit_xy2

\* the Z bound of the checked move is violated
ZViolated ==
    /\ op.move.axes_d[3] # 0
    /\ ~(ZHomed /\ limit_z[1] <= op.move.end_pos[3]
                /\ op.move.end_pos[3] <= limit_z[2])

\* C1: check_move accepts a move only if XY is homed and the end point is
\* inside the XY limit and, when the move has a Z displacement, only if Z
\* is homed and the end is inside limit_z; a rejection carries "Must home
\* axis first" exactly when the violated bound is unhomed and no message
\* when it is homed but exceeded; no move is accepted while the most recent
\* of construction, motor-off and a set_position of both 0 and 1 is not
\* that set_position.
C1_AcceptOnlyHomedInRange ==
    Checked =>
        /\ Accepted => (XYHomed /\ ~XYViolated /\ ~ZViolated)
        /\ Rejected => (XYViolated \/ ZViolated)
        /\ (Rejected /\ XYViolated) =>
              op.result.args = IF XYHomed THEN << >>
                               ELSE <<"Must home axis first">>
        /\ (Rejected /\ ~XYViolated) =>
              op.result.args = IF ZHomed THEN << >>
                               ELSE <<"Must home axis first">>
        /\ last_xy # "set_position" => Rejected

\* a move with a Z displacement is rejected for Z with the message, XY
\* being homed and in range
C1_Witness ==
    /\ Rejected
    /\ XYHomed
    /\ ~XYViolated
    /\ ~ZHomed
    /\ op.result.args = <<"Must home axis first">>

\* C2: after the motor-off event, whatever the limits were before, both
\* limits hold their unhomed sentinels and get_status reports no homed axis.
C2_MotorOffUnhomesAll ==
    op.name = "motor_off" =>
        /\ limit_xy2 = -1
        /\ limit_z = <<1, -1>>
        /\ get_status.homed_axes = ""

\* the motor-off event has fired with both XY and Z homed
C2_Witness ==
    /\ op.name = "motor_off"
    /\ op.before[1] >= 0
    /\ op.before[2][1] <= op.before[2][2]

\* the state part of C3
C3_State ==
    /\ limit_xy2 \in {-1, get_range(rails[1])[2] * get_range(rails[1])[2]}
    /\ (get_status.homed_axes \in {"xy", "xyz"}) <=> (last_xy = "set_position")
    /\ limit_z \in {<<1, -1>>, get_range(rails[2])}
    /\ (get_status.homed_axes \in {"z", "xyz"}) <=> (last_z = "set_position")

\* the step part of C3
C3_Step ==
    /\ (op'.name = "set_position"
            /\ ~({0, 1} \subseteq op'.homing_axes)) => limit_xy2' = limit_xy2
    /\ op'.name = "note_z_not_homed" => limit_xy2' = limit_xy2
    /\ op'.name \in {"check_move", "segment_move", "get_status"} =>
            (limit_xy2' = limit_xy2 /\ limit_z' = limit_z)

\* C3: limit_xy2 is -1 or the square of the radial rail's maximum and "xy"
\* is reported exactly when the most recent of construction, motor-off and
\* set_position of both 0 and 1 was that set_position; limit_z is (1, -1)
\* or the Z rail's range and "z" is reported exactly when the most recent
\* of construction, motor-off, note_z_not_homed and set_position of 2 was
\* that set_position; a set_position of only one of 0 and 1 and
\* note_z_not_homed leave limit_xy2 alone, and check_move, segment_move and
\* get_status leave both limits alone.
C3_LimitsFollowHoming == []C3_State /\ [][C3_Step]_vars

\* get_status reports "xy" alone: XY homed, then Z unhomed again by
\* note_z_not_homed
C3_Witness ==
    /\ op.name = "get_status"
    /\ op.result.homed_axes = "xy"
    /\ last_z = "note_z_not_homed"

\* the rotational limit_speed call of C8, with 3.1415 for pi
C8_Call(move) ==
    LET bed_radius == distance(<<0, 0>>, <<0, get_range(rails[1])[2]>>)
        min_radius == Min(distance(<<0, 0>>, move.start_pos),
                          distance(<<0, 0>>, move.end_pos))
        scale      == (2 * LocalPi * min_radius) \div bed_radius
    IN  <<max_rotational_accel, max_rotational_velocity * scale>>

\* C8: a move that passes the XY check and has a planar displacement gets
\* limit_speed(max_rotational_accel, max_rotational_velocity * scale) with
\* scale = 2 * 3.1415 * min(start_radius, end_radius) / bed_radius; a move
\* without planar displacement gets no rotational limit_speed call.
C8_RotationalLimitUsesLocalPi ==
    (Checked /\ ~XYViolated) =>
        IF op.move.axes_d[1] # 0 \/ op.move.axes_d[2] # 0
        THEN /\ Len(op.result.limit_speed) >= 1
             /\ op.result.limit_speed[1] = C8_Call(op.move)
        ELSE \/ op.result.limit_speed = << >>
             \/ /\ op.move.axes_d[3] # 0
                /\ op.result.limit_speed = z_limit(op.move)

\* C9 as stated: a rejected move has had no limit_speed call
C9_RejectedMoveUntouched ==
    Rejected => op.result.limit_speed = << >>

\* C9 amended: a move rejected for XY has had no limit_speed call; a move
\* rejected for Z has had no Z limit_speed call and has had the rotational
\* limit_speed call exactly when it has a planar displacement.
C9_RejectedForXYUntouched ==
    /\ (Rejected /\ XYViolated) => op.result.limit_speed = << >>
    /\ (Rejected /\ ~XYViolated) =>
          /\ Len(op.result.limit_speed) =
                IF op.move.axes_d[1] # 0 \/ op.move.axes_d[2] # 0
                THEN 1 ELSE 0
          /\ \A i \in 1 .. Len(op.result.limit_speed) :
                op.result.limit_speed[i][1] = max_rotational_accel

\* a move with planar and Z displacement, XY in range, rejected for Z after
\* the rotational limit_speed call
C9_Witness ==
    /\ Rejected
    /\ ~XYViolated
    /\ op.move.axes_d[1] # 0
    /\ op.move.axes_d[3] # 0
    /\ Len(op.result.limit_speed) = 1

----------------------------------------------------------------------------
(* The segmenter as a function of the planned move *)

\* a far coordinate: as far from the origin as the literal 100000
Far == ClosestInit

SegCoords == (-Near .. Near) \cup {-Far, Far}

SegPoints == SegCoords \X SegCoords

SegMoves == [start_pos : SegPoints, end_pos : SegPoints]

InitSeg ==
    /\ rails \in RailConfigs
    /\ limit_xy2 = -1
    /\ limit_z = <<1, -1>>
    /\ last_xy = "construction"
    /\ last_z = "construction"
    /\ hs_axes = << >>
    /\ hs_calls = << >>
    /\ op \in [name : {"planned"}, move : SegMoves]

SegmentPlanned == op.name = "planned" /\ segment_move_call(op.move)

NextSeg == SegmentPlanned

SpecSeg == InitSeg /\ [][NextSeg]_vars

----------------------------------------------------------------------------
(* Claims about segment_move, checked under SpecSeg *)

Sgn(x) == IF x < 0 THEN -1 ELSE IF x > 0 THEN 1 ELSE 0

\* the closed straight segment from a to b contains the origin: a and b are
\* collinear with the origin and do not lie strictly on the same side of it
ContainsOrigin(a, b) ==
    /\ a # None
    /\ b # None
    /\ Sgn(a[1]) * Sgn(b[2]) = Sgn(a[2]) * Sgn(b[1])
    /\ WMul(Abs(a[1]), Abs(b[2])) = WMul(Abs(a[2]), Abs(b[1]))
    /\ Sgn(a[1]) * Sgn(b[1]) <= 0
    /\ Sgn(a[2]) * Sgn(b[2]) <= 0

Segmented == op.name = "segment_move" /\ op.result # None

\* C4: on every move that segment_move segments and whose start and end are
\* not the origin, none of the three returned segments contains the origin.
C4_SegmentsAvoidCenter ==
    (/\ Segmented
     /\ op.move.start_pos # <<0, 0>>
     /\ op.move.end_pos # <<0, 0>>)
    => \A i \in 1 .. 3 : ~ContainsOrigin(op.result[i][1], op.result[i][2])

\* the candidate set of C5
CandidateSet(move) ==
    IF move.start_pos[1] = 0 /\ move.end_pos[1] = 0
    THEN { <<0, Clearance>>, <<0, -Clearance>> }
    ELSE IF move.start_pos[2] = 0 /\ move.end_pos[2] = 0
    THEN { <<Clearance, 0>>, <<-Clearance, 0>> }
    ELSE { <<0, Clearance>>, <<0, -Clearance>>,
           <<Clearance, 0>>, <<-Clearance, 0>> }

\* the members of S nearest to p
Nearest(S, p) ==
    { c \in S : \A d \in S : WLe(sqrdistance(c, p), sqrdistance(d, p)) }

\* C5: segment_move returns None exactly when crosses_point is false, and
\* otherwise [(start, via_start), (via_start, via_end), (via_end, end)]
\* with via_start a candidate nearest to start and via_end a candidate
\* nearest to end, at any distance of start and end from the origin.
C5_NearestCandidates ==
    op.name = "segment_move" =>
        LET s == op.move.start_pos
            e == op.move.end_pos
            C == CandidateSet(op.move)
        IN  /\ (op.result = None) <=> ~crosses_point(<<0, 0>>, s, e)
            /\ op.result # None =>
                 \E vs \in Nearest(C, s), ve \in Nearest(C, e) :
                    op.result = << <<s, vs>>, <<vs, ve>>, <<ve, e>> >>

\* C10: a move whose closed segment contains the origin is never missed:
\* crosses_point is true and segment_move returns three segments.
C10_NoMissedCrossing ==
    (/\ op.name = "segment_move"
     /\ ContainsOrigin(op.move.start_pos, op.move.end_pos))
    => /\ crosses_point(<<0, 0>>, op.move.start_pos, op.move.end_pos)
       /\ op.result # None
       /\ Len(op.result) = 3

\* a move that ends exactly at the origin has been segmented
C10_Witness ==
    /\ Segmented
    /\ op.move.end_pos = <<0, 0>>
    /\ op.move.start_pos = <<0, Near>>

----------------------------------------------------------------------------
(* Claims about homing, checked under SpecHome *)

\* the rails named by the home_rails calls received, in order
HomedRails ==
    LET RECURSIVE pick(_)
        pick(i) == IF i > Len(hs_calls) THEN << >>
                   ELSE (IF hs_calls[i].fn = "home_rails"
                         THEN <<hs_calls[i].rails[1]>> ELSE << >>)
                        \o pick(i + 1)
    IN  pick(1)

\* C6: when axis 0 or 1 is requested, home() first calls set_axes with a
\* list holding 0 and 1 (and 2 iff requested) and then makes exactly one
\* home_rails call on the radial rail, followed iff axis 2 is requested by
\* exactly one on the vertical rail; when neither planar axis is requested
\* no home_rails call names the radial rail.
C6_OneCombinedPlanarHoming ==
    op.name = "home" =>
        IF In(0, op.requested) \/ In(1, op.requested)
        THEN /\ hs_calls[1].fn = "set_axes"
             /\ In(0, hs_calls[1].axes)
             /\ In(1, hs_calls[1].axes)
             /\ In(2, hs_calls[1].axes) <=> In(2, op.requested)
             /\ \A i \in 2 .. Len(hs_calls) : hs_calls[i].fn = "home_rails"
             /\ HomedRails = <<"stepper_x">>
                    \o (IF In(2, op.requested) THEN <<"stepper_z">>
                        ELSE << >>)
        ELSE ~In("stepper_x", HomedRails)

\* the rails that may home an axis: the radial rail for axis 0, the
\* vertical rail for axis 2; axis 1 has no rail of its own and either is
\* taken as its rail
RailsOfAxis(axis) == IF axis = 0 THEN {1} ELSE IF axis = 2 THEN {2} ELSE {1, 2}

\* C7: home2() completes without error and makes exactly one home_rails
\* call per requested axis, in the order of get_axes, each naming the rail
\* of that axis with a forcepos 1.5 times the distance from the endstop to
\* the far end of the range away from homepos on that axis.
C7_Home2HomesEveryAxis ==
    op.name = "home2" =>
        /\ op.error = ""
        /\ Len(hs_calls) = Len(op.requested)
        /\ \A i \in 1 .. Len(hs_calls) :
              \E r \in RailsOfAxis(op.requested[i]) :
                  LET axis == op.requested[i]
                      rail == rails[r]
                      far  == IF rail.positive_dir
                              THEN rail.position_endstop - rail.position_min
                              ELSE rail.position_max - rail.position_endstop
                  IN  /\ hs_calls[i].fn = "home_rails"
                      /\ hs_calls[i].rails = <<RailName(r)>>
                      /\ Abs(hs_calls[i].forcepos[axis + 1][1]
                             - hs_calls[i].homepos[axis + 1][1]) = 3 * far

====
